---- MODULE Spec2Model ----
(***************************************************************************)
(* Focus ("study_mode") lock controller of the learning assistant          *)
(* (src/main.py): Task / StudyHelper / StudyHelperGUI.  Every handler of   *)
(* the GUI that reads or writes the controller's state is one action.      *)
(* Time is an integer number of clock ticks, TicksPerSec ticks to the      *)
(* second, so that the truncation to whole seconds done by strftime and    *)
(* the one-decimal formatting of the remaining minutes are real            *)
(* conversions.                                                            *)
(***************************************************************************)
EXTENDS Integers, Sequences, FiniteSets, TLC

(* ------------------------------ bounds --------------------------------- *)
MaxTasks == 2          \* tasks ever created in one run
MaxLimit == 1          \* largest time limit (minutes) offered to save_task
MaxMinute == 1         \* the clock visits whole minutes 0..MaxMinute ...
MaxPending == 2        \* pending reset_unlock_dialog callbacks
MaxAttempts == 4       \* close attempts recorded per task
MaxWrong == 4          \* wrong passwords counted in one dialog
TicksPerSec == 2       \* resolution of the clock
CoarseAttempts == 3    \* close attempts per task explored by Spec
CoarseWrong == 1       \* wrong passwords explored by Spec
LockTasks == 1         \* tasks created in a run of SpecLock

(* -------------------------- program constants -------------------------- *)
SecPerMin == 60
SecPerDay == 86400
CooldownSecs == 5
\* the full-screen test written with > instead of >=
LockThreshold_OffByOne == 3 + 1
LockThreshold == 3
MaxTries == 3

TicksPerMin == TicksPerSec * SecPerMin
CooldownTicks == CooldownSecs * TicksPerSec

NoTime == -1           \* None for a datetime
NoId == 0              \* None for a task id
unlock_password == "123456"
Passwords == {unlock_password, "000000"}
InitialGeometry == "1400x750"
Geometries == {"1400x750", "800x600"}
ScreenGeometry == "screen"

\* the instants the clock visits: each whole minute and one tick later (a
\* time that strftime truncates)
Offsets == {0, 1}
Instants == {m * TicksPerMin + d : m \in 0..MaxMinute, d \in Offsets}

VARIABLES
    tasks,                  \* StudyHelper.tasks: sequence of Task records
    file,                   \* contents of tasks.json: sequence of dicts
    nextId,                 \* number of ids generated so far
    now,                    \* datetime.datetime.now()
    current_mode,           \* StudyHelperGUI.current_mode
    running_study_task_id,  \* id of the active task or NoId
    is_fullscreen,          \* the lock flag
    original_geometry,      \* geometry captured by enter_fullscreen
    geometry,               \* geometry of the root window
    unlock_dialog,          \* "open" while the Toplevel exists, else "None"
    wrong_attempts,         \* consecutive wrong passwords
    password_var,           \* text of the password entry
    inputs_state,           \* state of the entry and button: normal/disabled
    error_label,            \* text under the password entry
    after_reset,            \* due times of pending reset_unlock_dialog calls
    after_ticks,            \* pending update_countdown closures
    study_mode_status,      \* text of the countdown label
    messagebox,             \* the message box shown by the last step, if any
    destroyed,              \* root.destroy() has run
    stale_resets            \* history: pending reset_unlock_dialog calls that
                            \* were scheduled from a dialog since destroyed

vars == <<tasks, file, nextId, now, current_mode, running_study_task_id,
          is_fullscreen, original_geometry, geometry, unlock_dialog,
          wrong_attempts, password_var, inputs_state, error_label,
          after_reset, after_ticks, study_mode_status, messagebox,
          destroyed, stale_resets>>

taskVars == <<tasks, file, nextId>>
dialogVars == <<unlock_dialog, wrong_attempts, password_var, inputs_state,
                error_label>>
lockVars == <<is_fullscreen, original_geometry, geometry>>

(* ------------------------------ Task ----------------------------------- *)
\* Task.__init__
NewTask(id, mode, limit) ==
    [id |-> id, study_mode |-> mode, time_limit |-> limit,
     start_time |-> NoTime, completed |-> FALSE, completed_at |-> NoTime,
     close_attempts |-> 0]

\* strftime("%Y-%m-%d %H:%M:%S"): the sub-second part is dropped
Strftime(t) == IF t = NoTime THEN NoTime ELSE t - (t % TicksPerSec)

\* Task.to_dict writing a zero in place of the close_attempts counter
to_dict_ZeroAttempts(t) ==
    [t EXCEPT !.start_time = Strftime(t.start_time), !.close_attempts = 0]

\* Task.to_dict
to_dict(t) == [t EXCEPT !.start_time = Strftime(t.start_time)]

\* StudyHelper._save_tasks
SaveTasks(ts) == [i \in 1..Len(ts) |-> to_dict(ts[i])]

\* Task.from_dict without "task.close_attempts = data.get(...)"
from_dict_DropsAttempts(data) ==
    [NewTask(data.id, data.study_mode, data.time_limit) EXCEPT
        !.completed = data.completed,
        !.completed_at = data.completed_at,
        !.start_time = IF data.start_time # NoTime THEN data.start_time
                       ELSE NoTime]

\* Task.from_dict: a fresh Task whose fields are then set from the dict;
\* strptime of the saved string gives the start time to the whole second
from_dict(data) ==
    [NewTask(data.id, data.study_mode, data.time_limit) EXCEPT
        !.completed = data.completed,
        !.completed_at = data.completed_at,
        !.close_attempts = data.close_attempts,
        !.start_time = IF data.start_time # NoTime THEN data.start_time
                       ELSE NoTime]

\* StudyHelper._load_tasks
LoadTasks(f) == [i \in 1..Len(f) |-> from_dict(f[i])]

\* the elapsed seconds compared with the limit without the division by 60
UsedLessThanLimit_NoDivision(t, clock) ==
    (clock - t.start_time) < t.time_limit * TicksPerSec

\* the comparison made with <= : a task is refused at exactly its limit
UsedLessThanLimit_OrEqual(t, clock) ==
    (clock - t.start_time) <= t.time_limit * TicksPerMin

\* (now - start_time).total_seconds() / 60 < time_limit
UsedLessThanLimit(t, clock) ==
    (clock - t.start_time) < t.time_limit * TicksPerMin

\* time_limit - used_time, in ticks
RemainingTicks(t, clock) == t.time_limit * TicksPerMin - (clock - t.start_time)

\* f"{remaining:.1f}": the remaining minutes rounded to tenths of a minute
FormatTenths(ticks) == (2 * 10 * ticks + TicksPerMin) \div (2 * TicksPerMin)

\* Task.start_study_mode without the "not self.start_time" test
start_study_mode_Restarts(t, clock) ==
    IF t.study_mode = "study_mode"
    THEN [t EXCEPT !.start_time = clock] ELSE t

\* Task.start_study_mode
start_study_mode(t, clock) ==
    IF t.study_mode = "study_mode" /\ t.start_time = NoTime
    THEN [t EXCEPT !.start_time = clock] ELSE t

\* Task.complete: result, the task afterwards, the message shown
CompleteRefused(t, clock) ==
    t.study_mode = "study_mode" /\ t.time_limit > 0
    /\ (t.start_time = NoTime \/ UsedLessThanLimit(t, clock))

\* Task.complete testing only the mode, not "self.time_limit > 0"
complete_AnyStudyTask(t, clock) ==
    IF t.study_mode = "study_mode" /\ t.start_time = NoTime
    THEN [ok |-> FALSE, task |-> t, msg |-> <<"not_started">>]
    ELSE IF t.study_mode = "study_mode" /\ UsedLessThanLimit(t, clock)
    THEN [ok |-> FALSE, task |-> t,
          msg |-> <<"time_not_reached", t.time_limit,
                    FormatTenths(RemainingTicks(t, clock))>>]
    ELSE [ok |-> TRUE,
          task |-> IF t.completed THEN t
                   ELSE [t EXCEPT !.completed = TRUE,
                                  !.completed_at = Strftime(clock)],
          msg |-> <<>>]

\* Task.complete without "if not self.completed": the time is stamped again
complete_Restamps(t, clock) ==
    IF t.study_mode = "study_mode" /\ t.time_limit > 0 /\ t.start_time = NoTime
    THEN [ok |-> FALSE, task |-> t, msg |-> <<"not_started">>]
    ELSE IF t.study_mode = "study_mode" /\ t.time_limit > 0
            /\ UsedLessThanLimit(t, clock)
    THEN [ok |-> FALSE, task |-> t,
          msg |-> <<"time_not_reached", t.time_limit,
                    FormatTenths(RemainingTicks(t, clock))>>]
    ELSE [ok |-> TRUE,
          task |-> [t EXCEPT !.completed = TRUE,
                             !.completed_at = Strftime(clock)],
          msg |-> <<>>]

complete(t, clock) ==
    IF t.study_mode = "study_mode" /\ t.time_limit > 0 /\ t.start_time = NoTime
    THEN [ok |-> FALSE, task |-> t, msg |-> <<"not_started">>]
    ELSE IF t.study_mode = "study_mode" /\ t.time_limit > 0
            /\ UsedLessThanLimit(t, clock)
    THEN [ok |-> FALSE, task |-> t,
          msg |-> <<"time_not_reached", t.time_limit,
                    FormatTenths(RemainingTicks(t, clock))>>]
    ELSE [ok |-> TRUE,
          task |-> IF t.completed THEN t
                   ELSE [t EXCEPT !.completed = TRUE,
                                  !.completed_at = Strftime(clock)],
          msg |-> <<>>]

\* Task.record_close_attempt counting every request twice
record_close_attempt_ByTwo(t) == [t EXCEPT !.close_attempts = @ + 2]

\* Task.record_close_attempt
record_close_attempt(t) == [t EXCEPT !.close_attempts = @ + 1]

(* --------------------------- StudyHelper ------------------------------- *)
Ids(ts) == {ts[i].id : i \in 1..Len(ts)}

\* next((t for t in tasks if t.id == id), None): index of the first match
IndexOf(ts, id) ==
    IF id \in Ids(ts)
    THEN CHOOSE i \in 1..Len(ts) :
            ts[i].id = id /\ \A j \in 1..(i - 1) : ts[j].id # id
    ELSE 0

TaskOf(ts, id) == ts[IndexOf(ts, id)]

\* StudyHelper.start_study_mode_task
start_study_mode_task(ts, id, clock) ==
    IF id \in Ids(ts)
    THEN [ts EXCEPT ![IndexOf(ts, id)] = start_study_mode(@, clock)]
    ELSE ts

\* StudyHelper.record_close_attempt without the "task.id == task_id" test
helper_record_close_attempt_AllTasks(ts, id) ==
    IF id \in Ids(ts)
    THEN [i \in 1..Len(ts) |-> record_close_attempt(ts[i])]
    ELSE ts

\* StudyHelper.record_close_attempt
helper_record_close_attempt(ts, id) ==
    IF id \in Ids(ts)
    THEN [ts EXCEPT ![IndexOf(ts, id)] = record_close_attempt(@)]
    ELSE ts

\* StudyHelper.get_pending_tasks restricted to study-mode tasks
PendingStudy(ts) ==
    SelectSeq(ts, LAMBDA t : ~t.completed /\ t.study_mode = "study_mode")

\* StudyHelper.delete_task filtering with "task.id > task_id"
delete_task_RemovesOlder(ts, id) == SelectSeq(ts, LAMBDA t : t.id > id)

\* StudyHelper.delete_task that marks the task completed instead of removing it
delete_task_MarksCompleted(ts, id) ==
    [i \in 1..Len(ts) |->
        IF ts[i].id = id THEN [ts[i] EXCEPT !.completed = TRUE] ELSE ts[i]]

\* StudyHelper.delete_task
delete_task(ts, id) == SelectSeq(ts, LAMBDA t : t.id # id)

(* ------------------------------ Init ----------------------------------- *)
Init ==
    /\ tasks = <<>>
    /\ file = <<>>
    /\ nextId = 0
    /\ now = 0
    /\ current_mode = "normal"
    /\ running_study_task_id = NoId
    /\ is_fullscreen = FALSE
    /\ original_geometry = InitialGeometry
    /\ geometry = InitialGeometry
    /\ unlock_dialog = "None"
    /\ wrong_attempts = 0
    /\ password_var = ""
    /\ inputs_state = "normal"
    /\ error_label = <<>>
    /\ after_reset = <<>>
    /\ after_ticks = {}
    /\ study_mode_status = <<>>
    /\ messagebox = <<>>
    /\ destroyed = FALSE
    /\ stale_resets = 0

(* -------------------------- StudyHelperGUI ----------------------------- *)
\* unlock_dialog.grab_set(): while the dialog exists the main window's
\* widgets (task lists, mode radio buttons, add button) take no input
MainWindowUsable == ~destroyed /\ unlock_dialog # "open"

\* (end_time - now).seconds: the seconds field of the timedelta, which leaves
\* out whole days and the sub-second part
TimedeltaSeconds(end_time, clock) ==
    ((end_time - clock) \div TicksPerSec) % SecPerDay

\* update_countdown with "now <= end_time" for "now < end_time"
update_countdown_OrEqual(mode, rid, tk, clock, status, ticks) ==
    IF mode # "study_mode" \/ rid # tk.id
    THEN [status |-> status, ticks |-> ticks]
    ELSE IF clock <= tk.end_time
    THEN [status |-> <<"remaining", tk.id,
                       TimedeltaSeconds(tk.end_time, clock) \div SecPerMin,
                       TimedeltaSeconds(tk.end_time, clock) % SecPerMin>>,
          ticks |-> ticks \cup {tk}]
    ELSE [status |-> <<"reached", tk.id>>, ticks |-> ticks]

\* the closure update_countdown of start_countdown: tk = [id, end_time];
\* the status text carries remaining.seconds // 60 and remaining.seconds % 60
update_countdown(mode, rid, tk, clock, status, ticks) ==
    IF mode # "study_mode" \/ rid # tk.id
    THEN [status |-> status, ticks |-> ticks]
    ELSE IF clock < tk.end_time
    THEN [status |-> <<"remaining", tk.id,
                       TimedeltaSeconds(tk.end_time, clock) \div SecPerMin,
                       TimedeltaSeconds(tk.end_time, clock) % SecPerMin>>,
          ticks |-> ticks \cup {tk}]
    ELSE [status |-> <<"reached", tk.id>>, ticks |-> ticks]

\* start_countdown(task): the task list afterwards and the closure it builds
CountdownTasks(ts, id, clock) ==
    IF TaskOf(ts, id).start_time = NoTime
    THEN [ts EXCEPT ![IndexOf(ts, id)].start_time = clock]
    ELSE ts

CountdownClosure(ts, id) ==
    [id |-> id,
     end_time |-> TaskOf(ts, id).start_time
                    + TaskOf(ts, id).time_limit * TicksPerMin]

\* exit_fullscreen without root.geometry(self.original_geometry)
exit_fullscreen_KeepsGeometry ==
    /\ is_fullscreen' = FALSE
    /\ UNCHANGED <<original_geometry, geometry>>
    /\ IF unlock_dialog = "open"
       THEN /\ unlock_dialog' = "None"
            /\ password_var' = ""
            /\ inputs_state' = "normal"
            /\ error_label' = <<>>
            /\ UNCHANGED wrong_attempts
       ELSE UNCHANGED dialogVars

\* exit_fullscreen
exit_fullscreen ==
    /\ geometry' = original_geometry
    /\ is_fullscreen' = FALSE
    /\ UNCHANGED original_geometry
    /\ IF unlock_dialog = "open"
       THEN /\ unlock_dialog' = "None"
            /\ password_var' = ""
            /\ inputs_state' = "normal"
            /\ error_label' = <<>>
            /\ UNCHANGED wrong_attempts
       ELSE UNCHANGED dialogVars

\* a handler that never leaves full-screen
ExitIfFullscreen_Never == UNCHANGED <<lockVars, dialogVars>>

\* the "if self.is_fullscreen: self.exit_fullscreen()" of the handlers
ExitIfFullscreen ==
    IF is_fullscreen THEN exit_fullscreen
    ELSE UNCHANGED <<lockVars, dialogVars>>

\* show_unlock_dialog without the "already exists" test: a new dialog each time
show_unlock_dialog_Always ==
    /\ unlock_dialog' = "open"
    /\ wrong_attempts' = 0
    /\ password_var' = ""
    /\ inputs_state' = "normal"
    /\ error_label' = <<>>

\* show_unlock_dialog without "self.wrong_attempts = 0"
show_unlock_dialog_KeepsCount ==
    IF unlock_dialog = "open"
    THEN UNCHANGED dialogVars
    ELSE /\ unlock_dialog' = "open"
         /\ password_var' = ""
         /\ inputs_state' = "normal"
         /\ error_label' = <<>>
         /\ UNCHANGED wrong_attempts

\* show_unlock_dialog
show_unlock_dialog ==
    IF unlock_dialog = "open"
    THEN UNCHANGED dialogVars
    ELSE /\ unlock_dialog' = "open"
         /\ wrong_attempts' = 0
         /\ password_var' = ""
         /\ inputs_state' = "normal"
         /\ error_label' = <<>>

\* enter_fullscreen
enter_fullscreen ==
    /\ original_geometry' = geometry
    /\ geometry' = ScreenGeometry
    /\ is_fullscreen' = TRUE
    /\ show_unlock_dialog

\* what the two time-limit widgets of the add-task dialog can hold: the
\* manual entry (an integer text) or the combobox choice, never both, since
\* writing one clears the other; <<>> is the empty text
TimeLimitInputs(manuals, choices) ==
    {[manual |-> <<n>>, combo |-> <<>>] : n \in manuals}
        \cup {[manual |-> <<>>, combo |-> <<n>>] : n \in choices}
        \cup {[manual |-> <<>>, combo |-> <<>>]}

\* save_task without the test for a non-positive number of minutes
TimeLimitOf_AcceptsAny(mode, input) ==
    IF mode # "study_mode" THEN [ok |-> TRUE, limit |-> 0, msg |-> <<>>]
    ELSE IF input.manual # <<>>
    THEN [ok |-> TRUE, limit |-> input.manual[1], msg |-> <<>>]
    ELSE IF input.combo # <<>>
    THEN [ok |-> TRUE, limit |-> input.combo[1], msg |-> <<>>]
    ELSE [ok |-> FALSE, limit |-> 0, msg |-> <<"missing_time_limit">>]

\* save_task: the time limit read from the widgets, or the reason to refuse
TimeLimitOf(mode, input) ==
    IF mode # "study_mode" THEN [ok |-> TRUE, limit |-> 0, msg |-> <<>>]
    ELSE IF input.manual # <<>>
    THEN IF input.manual[1] <= 0
         THEN [ok |-> FALSE, limit |-> 0, msg |-> <<"invalid_time_limit">>]
         ELSE [ok |-> TRUE, limit |-> input.manual[1], msg |-> <<>>]
    ELSE IF input.combo # <<>>
    THEN [ok |-> TRUE, limit |-> input.combo[1], msg |-> <<>>]
    ELSE [ok |-> FALSE, limit |-> 0, msg |-> <<"missing_time_limit">>]

\* show_add_task_dialog.save_task (subject, content and deadline valid), then
\* StudyHelper.add_task
AddTask(input) ==
    /\ MainWindowUsable
    /\ nextId < MaxTasks
    /\ LET r == TimeLimitOf(current_mode, input)
       IN IF r.ok
          THEN /\ tasks' = Append(tasks,
                                  NewTask(nextId + 1, current_mode, r.limit))
               /\ file' = SaveTasks(tasks')
               /\ nextId' = nextId + 1
               /\ messagebox' = <<"task_added">>
          ELSE /\ messagebox' = r.msg
               /\ UNCHANGED <<tasks, file, nextId>>
    /\ UNCHANGED <<now, current_mode, running_study_task_id, lockVars,
                   dialogVars, after_reset, after_ticks, study_mode_status, destroyed>>

\* on_task_select, study-mode task, first third of the action column
StartTask(id) ==
    /\ MainWindowUsable
    /\ id \in Ids(tasks)
    /\ TaskOf(tasks, id).study_mode = "study_mode"
    /\ tasks' = start_study_mode_task(tasks, id, now)
    /\ file' = IF tasks' # tasks THEN SaveTasks(tasks') ELSE file
    /\ running_study_task_id' = id
    /\ LET r == update_countdown(current_mode, id, CountdownClosure(tasks', id),
                                 now, study_mode_status, after_ticks)
       IN /\ study_mode_status' = r.status
          /\ after_ticks' = r.ticks
    /\ messagebox' = <<"started">>
    /\ UNCHANGED <<nextId, now, current_mode, lockVars, dialogVars,
                   after_reset, destroyed>>

\* on_task_select, the "complete" part of the action column
CompleteTask(id) ==
    /\ MainWindowUsable
    /\ id \in Ids(tasks)
    /\ LET t == TaskOf(tasks, id)
           r == complete(t, now)
       IN IF r.ok
          THEN /\ tasks' = [tasks EXCEPT ![IndexOf(tasks, id)] = r.task]
               /\ file' = SaveTasks(tasks')
               /\ messagebox' = <<"completed">>
               /\ IF t.study_mode = "study_mode"
                  THEN /\ running_study_task_id' = NoId
                       /\ study_mode_status' = <<>>
                       /\ ExitIfFullscreen
                  ELSE UNCHANGED <<running_study_task_id, study_mode_status,
                                   lockVars, dialogVars>>
          ELSE /\ messagebox' = r.msg
               /\ UNCHANGED <<tasks, file, running_study_task_id,
                              study_mode_status, lockVars,
                              dialogVars>>
    /\ UNCHANGED <<nextId, now, current_mode, after_reset, after_ticks,
                   destroyed>>

\* on_task_select, the "delete" part of the action column, confirmed
DeleteTask(id) ==
    /\ MainWindowUsable
    /\ id \in Ids(tasks)
    /\ tasks' = delete_task(tasks, id)
    /\ file' = SaveTasks(tasks')
    /\ messagebox' = <<"deleted">>
    /\ IF TaskOf(tasks, id).study_mode = "study_mode"
       THEN /\ running_study_task_id' = NoId
            /\ study_mode_status' = <<>>
            /\ ExitIfFullscreen
       ELSE UNCHANGED <<running_study_task_id, study_mode_status,
                        lockVars, dialogVars>>
    /\ UNCHANGED <<nextId, now, current_mode, after_reset, after_ticks,
                   destroyed>>

\* the test of handle_close with "and the time limit has not elapsed" added
CloseVetoed_UntilElapsed ==
    /\ running_study_task_id # NoId /\ current_mode = "study_mode"
    /\ running_study_task_id \in Ids(tasks) =>
          RemainingTicks(TaskOf(tasks, running_study_task_id), now) > 0

\* handle_close (WM_DELETE_WINDOW of the root window; the confirmation of the
\* normal-mode branch is answered yes)
CloseVetoed == running_study_task_id # NoId /\ current_mode = "study_mode"

handle_close ==
    /\ ~destroyed
    /\ IF CloseVetoed
       THEN /\ running_study_task_id \in Ids(tasks) =>
                 TaskOf(tasks, running_study_task_id).close_attempts < MaxAttempts
            /\ tasks' = helper_record_close_attempt(tasks, running_study_task_id)
            /\ file' = IF running_study_task_id \in Ids(tasks)
                       THEN SaveTasks(tasks') ELSE file
            /\ LET attempts == IF running_study_task_id \in Ids(tasks)
                               THEN TaskOf(tasks', running_study_task_id).close_attempts
                               ELSE 0
               IN IF attempts <= 1
                  THEN /\ messagebox' = <<"close_forbidden">>
                       /\ UNCHANGED <<lockVars, dialogVars>>
                  ELSE /\ messagebox' = <<"close_warning", attempts>>
                       /\ IF attempts >= LockThreshold
                          THEN enter_fullscreen
                          ELSE UNCHANGED <<lockVars, dialogVars>>
            /\ UNCHANGED destroyed
       ELSE /\ destroyed' = TRUE
            /\ messagebox' = <<"confirm_close">>
            /\ UNCHANGED <<tasks, file, lockVars, dialogVars>>
    /\ UNCHANGED <<nextId, now, current_mode, running_study_task_id,
                   after_reset, after_ticks, study_mode_status>>

\* handle_close with the confirmation answered no: nothing is destroyed
handle_close_declined ==
    /\ ~destroyed
    /\ ~CloseVetoed
    /\ messagebox' = <<"confirm_close">>
    /\ UNCHANGED <<tasks, file, nextId, now, current_mode,
                   running_study_task_id, lockVars, dialogVars, after_reset,
                   after_ticks, study_mode_status, destroyed>>

\* switch_mode, run as the command of the radio button that has just set
\* current_mode to target
SwitchRefused(target) ==
    /\ target = "normal"
    /\ running_study_task_id # NoId
    /\ running_study_task_id \in Ids(tasks)
    /\ TaskOf(tasks, running_study_task_id).start_time # NoTime
    /\ UsedLessThanLimit(TaskOf(tasks, running_study_task_id), now)

switch_mode(target) ==
    /\ MainWindowUsable
    /\ target \in {"normal", "study_mode"}
    /\ IF SwitchRefused(target)
       THEN /\ current_mode' = "study_mode"
            /\ messagebox' = <<"switch_refused">>
            /\ UNCHANGED <<tasks, file, running_study_task_id, lockVars,
                           dialogVars, after_ticks, study_mode_status>>
       ELSE /\ current_mode' = target
            /\ IF target = "study_mode"
               THEN IF PendingStudy(tasks) # <<>>
                    THEN LET id == Head(PendingStudy(tasks)).id
                         IN /\ running_study_task_id' = id
                            /\ tasks' = CountdownTasks(tasks, id, now)
                            /\ file' = IF tasks' # tasks THEN SaveTasks(tasks')
                                       ELSE file
                            /\ LET r == update_countdown(target, id,
                                            CountdownClosure(tasks', id), now,
                                            study_mode_status, after_ticks)
                               IN /\ study_mode_status' = r.status
                                  /\ after_ticks' = r.ticks
                            /\ messagebox' = <<>>
                            /\ UNCHANGED <<lockVars, dialogVars>>
                    ELSE /\ messagebox' = <<"study_mode_hint">>
                         /\ UNCHANGED <<tasks, file, running_study_task_id,
                                        lockVars, dialogVars, after_ticks,
                                        study_mode_status>>
               ELSE /\ running_study_task_id' = NoId
                    /\ study_mode_status' = <<>>
                    /\ messagebox' = <<>>
                    /\ ExitIfFullscreen
                    /\ UNCHANGED <<tasks, file, after_ticks>>
    /\ UNCHANGED <<nextId, now, after_reset, destroyed>>

\* check_password: the unlock button, or <Return> bound on the dialog itself,
\* which still fires while the entry and the button are disabled
check_password(entered) ==
    /\ ~destroyed
    /\ unlock_dialog = "open"
    /\ IF inputs_state = "normal" THEN entered \in Passwords
       ELSE entered = password_var
    /\ IF entered = unlock_password
       THEN /\ exit_fullscreen
            /\ messagebox' = <<"unlocked">>
            /\ UNCHANGED after_reset
       ELSE /\ wrong_attempts < MaxWrong
            /\ wrong_attempts' = wrong_attempts + 1
            /\ messagebox' = <<>>
            /\ IF MaxTries - wrong_attempts' > 0
               THEN /\ error_label' = <<"tries", MaxTries - wrong_attempts'>>
                    /\ password_var' = ""
                    /\ UNCHANGED <<inputs_state, after_reset>>
               ELSE /\ Len(after_reset) < MaxPending
                    /\ error_label' = <<"lockout">>
                    /\ inputs_state' = "disabled"
                    /\ password_var' = entered
                    /\ after_reset' = Append(after_reset, now + CooldownTicks)
            /\ UNCHANGED <<unlock_dialog, lockVars>>
    /\ UNCHANGED <<tasks, file, nextId, now, current_mode,
                   running_study_task_id, after_ticks, study_mode_status, destroyed>>

\* reset_unlock_dialog that re-enables the inputs but keeps the failure count
reset_unlock_dialog_KeepsCount ==
    /\ ~destroyed
    /\ after_reset # <<>>
    /\ now >= Head(after_reset)
    /\ after_reset' = Tail(after_reset)
    /\ IF unlock_dialog = "open"
       THEN /\ password_var' = ""
            /\ error_label' = <<>>
            /\ inputs_state' = "normal"
            /\ UNCHANGED <<unlock_dialog, wrong_attempts>>
       ELSE UNCHANGED dialogVars
    /\ messagebox' = <<>>
    /\ UNCHANGED <<tasks, file, nextId, now, current_mode,
                   running_study_task_id, lockVars, after_ticks,
                   study_mode_status, destroyed>>

\* reset_unlock_dialog, the callback of root.after(5000, ...)
reset_unlock_dialog ==
    /\ ~destroyed
    /\ after_reset # <<>>
    /\ now >= Head(after_reset)
    /\ after_reset' = Tail(after_reset)
    /\ IF unlock_dialog = "open"
       THEN /\ password_var' = ""
            /\ error_label' = <<>>
            /\ wrong_attempts' = 0
            /\ inputs_state' = "normal"
            /\ UNCHANGED unlock_dialog
       ELSE UNCHANGED dialogVars
    /\ messagebox' = <<>>
    /\ UNCHANGED <<tasks, file, nextId, now, current_mode,
                   running_study_task_id, lockVars, after_ticks,
                   study_mode_status, destroyed>>

\* the unlock dialog's own close button: the Toplevel sets no
\* WM_DELETE_WINDOW handler, so the window manager's request destroys it
DialogClose ==
    /\ ~destroyed
    /\ unlock_dialog = "open"
    /\ unlock_dialog' = "None"
    /\ password_var' = ""
    /\ inputs_state' = "normal"
    /\ error_label' = <<>>
    /\ messagebox' = <<>>
    /\ UNCHANGED <<tasks, file, nextId, now, current_mode,
                   running_study_task_id, lockVars, wrong_attempts,
                   after_reset, after_ticks, study_mode_status,
                   destroyed>>

\* a pending update_countdown closure fires (root.after(1000, ...))
Tick(tk) ==
    /\ ~destroyed
    /\ tk \in after_ticks
    /\ LET r == update_countdown(current_mode, running_study_task_id, tk, now,
                                 study_mode_status, after_ticks \ {tk})
       IN /\ study_mode_status' = r.status
          /\ after_ticks' = r.ticks
    /\ messagebox' = <<>>
    /\ UNCHANGED <<tasks, file, nextId, now, current_mode,
                   running_study_task_id, lockVars, dialogVars, after_reset, destroyed>>

\* the user resizes the root window (root.resizable(True, True))
Resize(g) ==
    /\ ~destroyed
    /\ ~is_fullscreen
    /\ g \in Geometries
    /\ g # geometry
    /\ geometry' = g
    /\ messagebox' = <<>>
    /\ UNCHANGED <<tasks, file, nextId, now, current_mode,
                   running_study_task_id, is_fullscreen, original_geometry,
                   dialogVars, after_reset, after_ticks, study_mode_status, destroyed>>

\* wall-clock time passes: datetime.datetime.now() grows
Advance(t) ==
    /\ ~destroyed
    /\ t > now
    /\ now' = t
    /\ messagebox' = <<>>
    /\ UNCHANGED <<tasks, file, nextId, current_mode, running_study_task_id,
                   lockVars, dialogVars, after_reset, after_ticks,
                   study_mode_status, destroyed>>

\* the event loop waits until the earliest root.after(5000, ...) call is due
AdvanceToDue ==
    /\ after_reset # <<>>
    /\ now < Head(after_reset)
    /\ Advance(Head(after_reset))

\* the program is run again after its window was closed: StudyHelper.__init__
\* loads tasks.json, StudyHelperGUI.__init__ sets the controller's fields
Restart ==
    /\ destroyed
    /\ tasks' = LoadTasks(file)
    /\ current_mode' = "normal"
    /\ running_study_task_id' = NoId
    /\ is_fullscreen' = FALSE
    /\ original_geometry' = InitialGeometry
    /\ geometry' = InitialGeometry
    /\ unlock_dialog' = "None"
    /\ wrong_attempts' = 0
    /\ password_var' = ""
    /\ inputs_state' = "normal"
    /\ error_label' = <<>>
    /\ after_reset' = <<>>
    /\ after_ticks' = {}
    /\ study_mode_status' = <<>>
    /\ messagebox' = <<>>
    /\ destroyed' = FALSE
    /\ UNCHANGED <<file, nextId, now>>

(* ---------------- StudyHelper called without the window ------------------ *)
\* The repository as verify_code drives it: helper.add_task with the
\* study_mode and time_limit arguments given directly
Helper_add_task(mode, limit) ==
    /\ ~destroyed
    /\ nextId < MaxTasks
    /\ tasks' = Append(tasks, NewTask(nextId + 1, mode, limit))
    /\ file' = SaveTasks(tasks')
    /\ nextId' = nextId + 1
    /\ UNCHANGED <<now, current_mode, running_study_task_id, lockVars,
                   dialogVars, after_reset, after_ticks, study_mode_status,
                   messagebox, destroyed>>

\* helper.start_study_mode_task(task_id)
Helper_start_study_mode_task(id) ==
    /\ ~destroyed
    /\ tasks' = start_study_mode_task(tasks, id, now)
    /\ file' = IF tasks' # tasks THEN SaveTasks(tasks') ELSE file
    /\ UNCHANGED <<nextId, now, current_mode, running_study_task_id, lockVars,
                   dialogVars, after_reset, after_ticks, study_mode_status,
                   messagebox, destroyed>>

\* the value helper.complete_task(task_id) returns
complete_task_returns(ts, id, clock) ==
    id \in Ids(ts) /\ complete(TaskOf(ts, id), clock).ok

\* helper.complete_task(task_id); Task.complete shows its refusal itself
Helper_complete_task(id) ==
    /\ ~destroyed
    /\ IF complete_task_returns(tasks, id, now)
       THEN /\ tasks' = [tasks EXCEPT ![IndexOf(tasks, id)] =
                                         complete(@, now).task]
            /\ file' = SaveTasks(tasks')
            /\ messagebox' = <<>>
       ELSE /\ messagebox' = IF id \in Ids(tasks)
                             THEN complete(TaskOf(tasks, id), now).msg
                             ELSE <<>>
            /\ UNCHANGED <<tasks, file>>
    /\ UNCHANGED <<nextId, now, current_mode, running_study_task_id, lockVars,
                   dialogVars, after_reset, after_ticks, study_mode_status,
                   destroyed>>

\* the value helper.delete_task(task_id) returns
delete_task_returns(ts, id) == Len(delete_task(ts, id)) < Len(ts)

\* helper.delete_task(task_id), for any id, present or not
Helper_delete_task(id) ==
    /\ ~destroyed
    /\ tasks' = delete_task(tasks, id)
    /\ file' = IF delete_task_returns(tasks, id) THEN SaveTasks(tasks')
               ELSE file
    /\ UNCHANGED <<nextId, now, current_mode, running_study_task_id, lockVars,
                   dialogVars, after_reset, after_ticks, study_mode_status,
                   messagebox, destroyed>>

(* ------------------------- specifications ------------------------------ *)
\* Several tasks; the lock is entered once per task, the window keeps its
\* size and the unlock dialog is explored up to the first wrong passwords
\* (no lock-out, hence no reset_unlock_dialog callback, occurs in this region).
TasksScope ==
    /\ \A i \in 1..Len(tasks) : tasks[i].close_attempts <= CoarseAttempts
    /\ wrong_attempts <= CoarseWrong
    /\ geometry \in {InitialGeometry, ScreenGeometry}

\* Few tasks; close attempts beyond the lock threshold, resizing, and the
\* unlock dialog with its lock-out and cool-down callbacks in full.
LockScope == nextId <= LockTasks

\* The history variable: root.after runs the callbacks in the order they were
\* scheduled, so the calls scheduled from destroyed dialogs are the first
\* stale_resets entries of after_reset.  When the dialog is destroyed every
\* pending call becomes stale; a call that runs leaves the queue.
TrackStaleResets ==
    stale_resets' =
        IF unlock_dialog = "open" /\ unlock_dialog' # "open"
        THEN Len(after_reset')
        ELSE IF Len(after_reset') < Len(after_reset)
        THEN IF stale_resets > Len(after_reset) - Len(after_reset')
             THEN stale_resets - (Len(after_reset) - Len(after_reset'))
             ELSE 0
        ELSE stale_resets

TasksStep == TasksScope' /\ TrackStaleResets

LockStep == LockScope' /\ TrackStaleResets

\* the time-limit inputs tried: manual entries from -1 to MaxLimit, combobox
\* choices from 1 to MaxLimit
Inputs == TimeLimitInputs(-1..MaxLimit, 1..MaxLimit)

Next ==
    \/ \E input \in Inputs : AddTask(input) /\ TasksStep
    \/ \E id \in 1..MaxTasks : StartTask(id) /\ TasksStep
    \/ \E id \in 1..MaxTasks : CompleteTask(id) /\ TasksStep
    \/ \E id \in 1..MaxTasks : DeleteTask(id) /\ TasksStep
    \/ handle_close /\ TasksStep
    \/ handle_close_declined /\ TasksStep
    \/ \E target \in {"normal", "study_mode"} : switch_mode(target) /\ TasksStep
    \/ \E entered \in Passwords : check_password(entered) /\ TasksStep
    \/ DialogClose /\ TasksStep
    \/ \E tk \in after_ticks : Tick(tk) /\ TasksStep
    \/ \E g \in Geometries : Resize(g) /\ TasksStep
    \/ \E t \in Instants : Advance(t) /\ TasksStep
    \/ Restart /\ TasksStep

NextLock ==
    \/ \E input \in Inputs : AddTask(input) /\ LockStep
    \/ \E id \in 1..MaxTasks : StartTask(id) /\ LockStep
    \/ \E id \in 1..MaxTasks : CompleteTask(id) /\ LockStep
    \/ \E id \in 1..MaxTasks : DeleteTask(id) /\ LockStep
    \/ handle_close /\ LockStep
    \/ handle_close_declined /\ LockStep
    \/ \E target \in {"normal", "study_mode"} : switch_mode(target) /\ LockStep
    \/ \E entered \in Passwords : check_password(entered) /\ LockStep
    \/ reset_unlock_dialog /\ LockStep
    \/ DialogClose /\ LockStep
    \/ \E tk \in after_ticks : Tick(tk) /\ LockStep
    \/ \E g \in Geometries : Resize(g) /\ LockStep
    \/ \E t \in Instants : Advance(t) /\ LockStep
    \/ Restart /\ LockStep

Spec == Init /\ [][Next]_vars

\* One task whose limit is 1 minute or one minute more than a day, and a clock
\* that visits the first seconds, the ends of the first minute and the instants
\* around the point where one day remains and around the long limit's end.
LongLimit == SecPerDay \div SecPerMin + 1
CountdownLimits == {1, LongLimit}
CountdownInstants ==
    {0, 1, TicksPerSec, TicksPerMin - 1, TicksPerMin, TicksPerMin + 1,
     TicksPerMin + TicksPerSec,
     LongLimit * TicksPerMin - 1, LongLimit * TicksPerMin}
CountdownScope == nextId <= 1
CountdownStep == CountdownScope' /\ TrackStaleResets

NextCountdown ==
    \/ \E target \in {"study_mode"} : switch_mode(target) /\ CountdownStep
    \/ \E input \in TimeLimitInputs(CountdownLimits, {}) :
          AddTask(input) /\ CountdownStep
    \/ \E id \in {1} : StartTask(id) /\ CountdownStep
    \/ \E tk \in after_ticks : Tick(tk) /\ CountdownStep
    \/ \E t \in CountdownInstants : Advance(t) /\ CountdownStep

SpecCountdown == Init /\ [][NextCountdown]_vars

SpecLock == Init /\ [][NextLock]_vars

\* The repository alone: tasks of either mode with time limits from 0, added,
\* started, completed and deleted by id (ids that are absent included).
HelperStep == TrackStaleResets

NextHelper ==
    \/ \E mode \in {"normal", "study_mode"}, limit \in 0..MaxLimit :
          Helper_add_task(mode, limit) /\ HelperStep
    \/ \E id \in 1..MaxTasks : Helper_start_study_mode_task(id) /\ HelperStep
    \/ \E id \in 1..MaxTasks : Helper_complete_task(id) /\ HelperStep
    \/ \E id \in 1..MaxTasks : Helper_delete_task(id) /\ HelperStep
    \/ \E t \in Instants : Advance(t) /\ HelperStep

SpecHelper == Init /\ [][NextHelper]_vars

\* The lock with time running on to the due time of every cool-down that was
\* scheduled: the clock starts within the first second and then moves to the
\* due times; a lock-out is only entered while its due time is within Horizon.
Horizon == 1 + CooldownTicks

FairScope ==
    /\ LockScope
    /\ \A i \in 1..Len(after_reset) : after_reset[i] <= Horizon

FairStep == FairScope' /\ TrackStaleResets

NextLockFair ==
    \/ \E input \in Inputs : AddTask(input) /\ FairStep
    \/ \E id \in 1..MaxTasks : StartTask(id) /\ FairStep
    \/ \E id \in 1..MaxTasks : CompleteTask(id) /\ FairStep
    \/ \E id \in 1..MaxTasks : DeleteTask(id) /\ FairStep
    \/ handle_close /\ FairStep
    \/ handle_close_declined /\ FairStep
    \/ \E target \in {"normal", "study_mode"} : switch_mode(target) /\ FairStep
    \/ \E entered \in Passwords : check_password(entered) /\ FairStep
    \/ reset_unlock_dialog /\ FairStep
    \/ DialogClose /\ FairStep
    \/ \E tk \in after_ticks : Tick(tk) /\ FairStep
    \/ \E g \in Geometries : Resize(g) /\ FairStep
    \/ \E t \in Offsets : Advance(t) /\ FairStep
    \/ AdvanceToDue /\ FairStep
    \/ Restart /\ FairStep

\* Tk's mainloop: time passes until a scheduled callback is due, and a due
\* callback is run
SpecLockFair ==
    /\ Init /\ [][NextLockFair]_vars
    /\ WF_vars(AdvanceToDue /\ FairStep)
    /\ WF_vars(reset_unlock_dialog /\ FairStep)

(* ------------------------------ claims --------------------------------- *)
TaskIds == 1..MaxTasks

IsTimed(t) == t.study_mode = "study_mode" /\ t.time_limit > 0

\* elapsed time of a started task, in ticks
Elapsed(t) == now - t.start_time

LimitTicks(t) == t.time_limit * TicksPerMin

\* C1: a timed study-mode task becomes completed only in a step taken when its
\* start time is set and at least time_limit minutes have elapsed since then;
\* a task is created not completed, and a completed timed task is a started one.
C1_CompletedOnlyAfterLimit ==
    [][\A id \in TaskIds :
        /\ (id \in Ids(tasks') /\ id \notin Ids(tasks)) =>
               ~TaskOf(tasks', id).completed
        /\ (id \in Ids(tasks) /\ id \in Ids(tasks')
              /\ IsTimed(TaskOf(tasks, id))
              /\ ~TaskOf(tasks, id).completed /\ TaskOf(tasks', id).completed) =>
               /\ TaskOf(tasks, id).start_time # NoTime
               /\ Elapsed(TaskOf(tasks, id)) >= LimitTicks(TaskOf(tasks, id))
               /\ TaskOf(tasks', id).start_time = TaskOf(tasks, id).start_time
      ]_vars

\* C1 witness: a timed task has just been marked completed
C1_Witness ==
    /\ messagebox = <<"completed">>
    /\ \E i \in 1..Len(tasks) : IsTimed(tasks[i]) /\ tasks[i].completed

\* what a refused or vetoed handler leaves alone: every task field and the
\* focus session
SessionUnchanged ==
    UNCHANGED <<tasks, file, running_study_task_id, is_fullscreen,
                current_mode, unlock_dialog, wrong_attempts>>

\* a complete click on a started timed task
CompleteOnStarted(id) ==
    /\ CompleteTask(id)
    /\ IsTimed(TaskOf(tasks, id))
    /\ TaskOf(tasks, id).start_time # NoTime

\* the remaining time a refusal reports, in tenths of a minute
ReportedTenths == messagebox[3]

\* C2 as stated: a complete action on a started timed task is refused while
\* elapsed < limit, reporting exactly limit - elapsed and changing nothing, and
\* succeeds once elapsed = limit.
C2_RefusedWithExactRemaining ==
    [][\A id \in TaskIds : CompleteOnStarted(id) =>
        IF Elapsed(TaskOf(tasks, id)) < LimitTicks(TaskOf(tasks, id))
        THEN /\ messagebox'[1] = "time_not_reached"
             /\ ReportedTenths' * TicksPerMin =
                    10 * (LimitTicks(TaskOf(tasks, id)) - Elapsed(TaskOf(tasks, id)))
             /\ SessionUnchanged
        ELSE /\ TaskOf(tasks', id).completed
             /\ messagebox' = <<"completed">>
      ]_vars

\* C2 amended: the refusal reports limit - elapsed rounded to the nearest tenth
\* of a minute (the message formats it with one decimal); the rest as stated.
C2_RefusedWithRoundedRemaining ==
    [][\A id \in TaskIds : CompleteOnStarted(id) =>
        IF Elapsed(TaskOf(tasks, id)) < LimitTicks(TaskOf(tasks, id))
        THEN /\ messagebox'[1] = "time_not_reached"
             /\ messagebox'[2] = TaskOf(tasks, id).time_limit
             /\ LET exact == 10 * (LimitTicks(TaskOf(tasks, id))
                                     - Elapsed(TaskOf(tasks, id)))
                    shown == ReportedTenths' * TicksPerMin
                IN /\ 2 * (shown - exact) <= TicksPerMin
                   /\ 2 * (exact - shown) <= TicksPerMin
             /\ SessionUnchanged
        ELSE /\ TaskOf(tasks', id).completed
             /\ messagebox' = <<"completed">>
      ]_vars

\* C2 witness: a refusal one tick before the limit, reported as 0.0 minutes
C2_Witness ==
    /\ Len(messagebox) = 3
    /\ messagebox[1] = "time_not_reached"
    /\ \E i \in 1..Len(tasks) :
          /\ IsTimed(tasks[i]) /\ tasks[i].start_time # NoTime
          /\ ~tasks[i].completed
          /\ LimitTicks(tasks[i]) - Elapsed(tasks[i]) = 1
          /\ messagebox[3] = 0

\* the active task exists, is started and has time remaining
ActiveUnelapsed ==
    /\ running_study_task_id # NoId
    /\ running_study_task_id \in Ids(tasks)
    /\ TaskOf(tasks, running_study_task_id).start_time # NoTime
    /\ RemainingTicks(TaskOf(tasks, running_study_task_id), now) > 0

\* C3: a toggle to normal is refused (the selector is forced to study_mode and
\* the refusal is shown) exactly when there is an active started task with
\* remaining time > 0; in every other state it is allowed and the mode
\* becomes normal.
C3_ToggleRefusedIffUnelapsed ==
    [][switch_mode("normal") =>
        IF ActiveUnelapsed
        THEN messagebox' = <<"switch_refused">> /\ current_mode' = "study_mode"
        ELSE messagebox' # <<"switch_refused">> /\ current_mode' = "normal"
      ]_vars

\* C3 witness: a toggle to normal has just been refused for an active task
C3_Witness ==
    /\ messagebox = <<"switch_refused">>
    /\ current_mode = "study_mode"
    /\ ActiveUnelapsed

\* C4 as stated: a refused toggle to normal is a pure guard, leaving the mode
\* (focus), the active task, the lock flag, the failure count and every task
\* field as they were before the toggle.
C4_RefusedToggleChangesNothing ==
    [][(switch_mode("normal") /\ messagebox' = <<"switch_refused">>) =>
        /\ current_mode' = "study_mode"
        /\ UNCHANGED <<current_mode, running_study_task_id, is_fullscreen,
                       wrong_attempts, tasks>>
      ]_vars

\* C5 as stated: every close-window request made while a task is active and
\* its timer has not elapsed is vetoed and counted exactly once.
C5_CloseVetoedWhileActive ==
    [][(handle_close /\ ActiveUnelapsed) =>
        /\ ~destroyed'
        /\ TaskOf(tasks', running_study_task_id).close_attempts
             = TaskOf(tasks, running_study_task_id).close_attempts + 1
      ]_vars

\* a close-window request that was counted against the active task
CountedClose ==
    /\ handle_close
    /\ running_study_task_id \in Ids(tasks)
    /\ TaskOf(tasks', running_study_task_id).close_attempts
         = TaskOf(tasks, running_study_task_id).close_attempts + 1

\* C6: a counted close-window request forces the lock (full-screen flag set,
\* window full-screen, unlock dialog open) when the count it reaches is >= 3,
\* and leaves the lock flag and the dialog as they were when it reaches 1 or 2.
C6_LockedIffThreeAttempts ==
    [][CountedClose =>
        IF TaskOf(tasks', running_study_task_id).close_attempts >= 3
        THEN /\ is_fullscreen'
             /\ geometry' = ScreenGeometry
             /\ unlock_dialog' = "open"
        ELSE UNCHANGED <<is_fullscreen, geometry, unlock_dialog>>
      ]_vars

\* C6 witness: the third close attempt has just locked the window
C6_Witness ==
    /\ is_fullscreen
    /\ unlock_dialog = "open"
    /\ messagebox = <<"close_warning", 3>>

\* C7 as stated: while the lock is held the captured geometry is not
\* overwritten, so what is restored is the geometry from before full-screen.
C7_GeometryCapturedOnce ==
    [][(is_fullscreen /\ is_fullscreen') =>
           original_geometry' = original_geometry]_vars

\* the step is one of the four ways the lock may be released
AllowedRelease ==
    \/ check_password(unlock_password)
    \/ /\ CompleteTask(running_study_task_id)
       /\ TaskOf(tasks', running_study_task_id).completed
    \/ DeleteTask(running_study_task_id)
    \/ switch_mode("normal") /\ ~ActiveUnelapsed

\* C8 as stated: the lock flag goes from true to false only by a correct
\* secret, a successful complete of the active task, the deletion of the
\* active task, or an allowed toggle to normal.
C8_LockReleasedOnlyByFourWays ==
    [][(is_fullscreen /\ ~is_fullscreen') => AllowedRelease]_vars

\* C9 as stated: completing or deleting a task other than the active one
\* leaves the active task, the lock flag and the mode unchanged.
C9_OtherTaskLeavesSession ==
    [][\A id \in TaskIds :
        ((CompleteTask(id) \/ DeleteTask(id)) /\ id # running_study_task_id) =>
            UNCHANGED <<running_study_task_id, is_fullscreen, current_mode>>
      ]_vars

\* a wrong secret submitted in the unlock dialog
WrongSubmission ==
    \E entered \in Passwords \ {unlock_password} : check_password(entered)

\* the cool-down callback running while the unlock dialog is still open
CooldownExpiry ==
    reset_unlock_dialog /\ unlock_dialog = "open"

\* C10: a wrong submission adds 1 to wrong_attempts and keeps the lock; below
\* 3 the dialog stays open and enabled and shows 3 - wrong_attempts tries; at 3
\* the inputs are disabled and a reset is scheduled 5 seconds later; when that
\* reset runs on the open dialog, wrong_attempts is 0 and the inputs enabled.
C10_WrongPasswordBudget ==
    [][/\ WrongSubmission =>
            /\ wrong_attempts' = wrong_attempts + 1
            /\ is_fullscreen'
            /\ unlock_dialog' = "open"
            /\ wrong_attempts' < 3 =>
                 /\ inputs_state' = "normal"
                 /\ error_label' = <<"tries", 3 - wrong_attempts'>>
            /\ wrong_attempts' = 3 =>
                 /\ inputs_state' = "disabled"
                 /\ after_reset' =
                      Append(after_reset, now + 5 * TicksPerSec)
       /\ CooldownExpiry =>
            /\ now >= Head(after_reset)
            /\ wrong_attempts' = 0
            /\ inputs_state' = "normal"
            /\ is_fullscreen'
      ]_vars

\* C10 witness: three wrong submissions have disabled the dialog and the
\* scheduled cool-down has run out
C10_Witness ==
    /\ unlock_dialog = "open"
    /\ is_fullscreen
    /\ wrong_attempts = 3
    /\ inputs_state = "disabled"
    /\ after_reset # <<>>
    /\ now >= Head(after_reset)

\* a submission made while the dialog's inputs are disabled for the cool-down
CooldownSubmission ==
    /\ inputs_state = "disabled"
    /\ \E entered \in Passwords : check_password(entered)

\* a cool-down is scheduled and has not run out
CooldownPending == after_reset # <<>> /\ now < Head(after_reset)

\* C11 as stated: a submission during the cool-down is neither accepted nor
\* counted (wrong_attempts, the lock flag and the scheduled cool-down are
\* unchanged), and no enabled unlock dialog exists before the cool-down ends.
C11_CooldownRefusesSubmissions ==
    /\ [][CooldownSubmission =>
            /\ is_fullscreen'
            /\ UNCHANGED <<wrong_attempts, is_fullscreen, after_reset>>]_vars
    /\ [](CooldownPending =>
            ~(unlock_dialog = "open" /\ inputs_state = "normal"))

\* the correct secret submitted in the unlock dialog
CorrectSubmission == check_password(unlock_password)

\* C12: a correct secret while locked leaves full-screen, restores the captured
\* geometry, clears the lock flag and closes the dialog; the active task id,
\* the mode and every task (start time, close attempts, completed) are unchanged.
C12_UnlockRestoresAndKeepsSession ==
    [][(CorrectSubmission /\ is_fullscreen) =>
            /\ ~is_fullscreen'
            /\ geometry' = original_geometry
            /\ unlock_dialog' = "None"
            /\ UNCHANGED <<running_study_task_id, current_mode, tasks>>
      ]_vars

\* C12 witness: just unlocked, with the session's task still active and started
C12_Witness ==
    /\ messagebox = <<"unlocked">>
    /\ ~is_fullscreen
    /\ running_study_task_id \in Ids(tasks)
    /\ TaskOf(tasks, running_study_task_id).start_time # NoTime
    /\ TaskOf(tasks, running_study_task_id).close_attempts >= 3

\* C13 as stated: a correct secret after 1 or 2 wrong ones is accepted, sets
\* wrong_attempts to 0 and leaves the session running and unlocked.
C13_AcceptedAndCounterReset ==
    [][(CorrectSubmission /\ wrong_attempts \in {1, 2}) =>
            /\ ~is_fullscreen'
            /\ unlock_dialog' = "None"
            /\ wrong_attempts' = 0
            /\ UNCHANGED <<running_study_task_id, current_mode>>
      ]_vars

\* C13 amended: the correct secret is accepted and the session keeps running
\* unlocked; wrong_attempts keeps its value then, and it is 0 whenever an
\* unlock dialog is opened.
C13_AcceptedCounterResetOnNextDialog ==
    [][/\ (CorrectSubmission /\ wrong_attempts \in {1, 2}) =>
            /\ ~is_fullscreen'
            /\ unlock_dialog' = "None"
            /\ wrong_attempts' = wrong_attempts
            /\ running_study_task_id' # NoId
            /\ UNCHANGED <<running_study_task_id, current_mode>>
       /\ (unlock_dialog # "open" /\ unlock_dialog' = "open") =>
            wrong_attempts' = 0
      ]_vars

\* C13 witness: just unlocked by the correct secret after 1 or 2 wrong ones,
\* the session's task still active
C13_Witness ==
    /\ messagebox = <<"unlocked">>
    /\ wrong_attempts \in {1, 2}
    /\ ~is_fullscreen
    /\ unlock_dialog = "None"
    /\ running_study_task_id \in Ids(tasks)

\* C14: over every step (start, close request, lock, unlock, mode switch,
\* complete, tick, save and reload) each task that remains keeps or raises its
\* close_attempts, the saved copy carries the same count, and a task leaves the
\* repository only by being deleted.
C14_CloseAttemptsMonotone ==
    [][\A id \in Ids(tasks) :
          /\ id \in Ids(tasks') =>
                TaskOf(tasks', id).close_attempts
                    >= TaskOf(tasks, id).close_attempts
          /\ id \notin Ids(tasks') => DeleteTask(id)
          /\ Restart =>
                TaskOf(tasks', id).close_attempts
                    = TaskOf(file, id).close_attempts
      ]_vars

\* C14 witness: a task that counted close attempts, the session over, in a
\* state as loaded from the file
C14_Witness ==
    /\ ~destroyed
    /\ current_mode = "normal"
    /\ running_study_task_id = NoId
    /\ tasks = LoadTasks(file)
    /\ \E i \in 1..Len(tasks) : tasks[i].close_attempts >= 2

\* C15: a task's close_attempts changes only in a close-window request made
\* while that task is the active one; such a request changes no other task,
\* and a request with no active task changes no task.
C15_OnlyActiveTaskCounted ==
    [][/\ \A id \in Ids(tasks) \cap Ids(tasks') :
            TaskOf(tasks', id).close_attempts # TaskOf(tasks, id).close_attempts
                => handle_close /\ id = running_study_task_id
       /\ (handle_close /\ running_study_task_id = NoId) =>
            UNCHANGED tasks
      ]_vars

\* C15 witness: of two tasks, the active one has counted a close request and
\* the other has not
C15_Witness ==
    /\ Len(tasks) = 2
    /\ messagebox = <<"close_forbidden">>
    /\ running_study_task_id \in Ids(tasks)
    /\ TaskOf(tasks, running_study_task_id).close_attempts = 1
    /\ \E i \in 1..2 : tasks[i].id # running_study_task_id
                       /\ tasks[i].close_attempts = 0

\* C16: a first start (Start button or entering study mode) sets the start
\* time to the current time; once set, no start, study-mode entry, lock,
\* unlock or tick changes it, and a second Start is accepted without error.
C16_StartIdempotent ==
    [][\A id \in Ids(tasks) :
          /\ (TaskOf(tasks, id).start_time # NoTime /\ id \in Ids(tasks')
              /\ ~Restart) =>
                TaskOf(tasks', id).start_time = TaskOf(tasks, id).start_time
          /\ StartTask(id) =>
                /\ messagebox' = <<"started">>
                /\ TaskOf(tasks, id).start_time = NoTime =>
                      TaskOf(tasks', id).start_time = now
          /\ (switch_mode("study_mode") /\ running_study_task_id' = id
              /\ TaskOf(tasks, id).start_time = NoTime) =>
                TaskOf(tasks', id).start_time = now
      ]_vars

\* C16 witness: Start pressed on a task that was started earlier
C16_Witness ==
    /\ messagebox = <<"started">>
    /\ running_study_task_id \in Ids(tasks)
    /\ TaskOf(tasks, running_study_task_id).start_time # NoTime
    /\ TaskOf(tasks, running_study_task_id).start_time < now

\* C17: a complete click on the active task that succeeds marks that task
\* completed, resets running_study_task_id and clears the lock (flag false,
\* no unlock dialog), whether or not the window was locked or warned before.
C17_CompleteActiveEndsSession ==
    [][\A id \in TaskIds :
        (CompleteTask(id) /\ id = running_study_task_id
         /\ messagebox' = <<"completed">>) =>
            /\ TaskOf(tasks', id).completed
            /\ running_study_task_id' = NoId
            /\ ~is_fullscreen'
            /\ unlock_dialog' = "None"
      ]_vars

\* C17 witness: the task that had locked the window has just been completed
C17_Witness ==
    /\ messagebox = <<"completed">>
    /\ running_study_task_id = NoId
    /\ ~is_fullscreen
    /\ \E i \in 1..Len(tasks) :
          tasks[i].completed /\ tasks[i].close_attempts >= 3

\* C18: deleting the active task, locked or not and elapsed or not, resets
\* running_study_task_id, clears the lock, removes the task from the
\* repository and its file, and sets completed on no task.
C18_DeleteActiveEndsSession ==
    [][\A id \in TaskIds :
        (DeleteTask(id) /\ id = running_study_task_id) =>
            /\ running_study_task_id' = NoId
            /\ ~is_fullscreen'
            /\ unlock_dialog' = "None"
            /\ id \notin Ids(tasks')
            /\ id \notin Ids(file')
            /\ \A j \in Ids(tasks') :
                  /\ j \in Ids(tasks)
                  /\ TaskOf(tasks', j).completed = TaskOf(tasks, j).completed
      ]_vars

\* C18 witness: the only task was deleted before its minute had passed, after
\* it had locked the window (four close requests)
C18_Witness ==
    /\ messagebox = <<"deleted">>
    /\ nextId = 1
    /\ tasks = <<>>
    /\ running_study_task_id = NoId
    /\ ~is_fullscreen
    /\ original_geometry = ScreenGeometry
    /\ now < TicksPerMin

\* the active task is started, not completed, and its time has elapsed
ReadyToComplete ==
    /\ running_study_task_id \in Ids(tasks)
    /\ TaskOf(tasks, running_study_task_id).start_time # NoTime
    /\ ~TaskOf(tasks, running_study_task_id).completed
    /\ Elapsed(TaskOf(tasks, running_study_task_id))
         >= LimitTicks(TaskOf(tasks, running_study_task_id))

\* C19: a toggle to normal with the active task's time elapsed, or with no
\* active task, is allowed: the mode is normal, running_study_task_id is none,
\* the lock flag is false and no task is changed.
C19_ToggleAllowedWhenElapsedOrIdle ==
    [][(switch_mode("normal")
        /\ (ReadyToComplete \/ running_study_task_id = NoId)) =>
            /\ current_mode' = "normal"
            /\ running_study_task_id' = NoId
            /\ ~is_fullscreen'
            /\ UNCHANGED tasks
      ]_vars

\* C19 witness: back in normal mode with a started, uncompleted task whose
\* time has elapsed and whose close attempts were counted
C19_Witness ==
    /\ current_mode = "normal"
    /\ running_study_task_id = NoId
    /\ ~is_fullscreen
    /\ messagebox = <<>>
    /\ \E i \in 1..Len(tasks) :
          /\ tasks[i].start_time # NoTime
          /\ ~tasks[i].completed
          /\ tasks[i].close_attempts >= 1
          /\ Elapsed(tasks[i]) = LimitTicks(tasks[i])

\* the pending timed tasks
PendingTimed == {id \in Ids(tasks) : ~TaskOf(tasks, id).completed
                                      /\ IsTimed(TaskOf(tasks, id))}

\* C20 as stated: entering study mode with a pending timed task makes one of
\* them the active task and its start time set (to now if it was empty);
\* with none, running_study_task_id is none afterwards and no timer starts.
C20_EnterStudyModePicksPending ==
    [][switch_mode("study_mode") =>
        IF PendingTimed # {}
        THEN /\ running_study_task_id' \in PendingTimed
             /\ TaskOf(tasks', running_study_task_id').start_time # NoTime
             /\ TaskOf(tasks, running_study_task_id').start_time = NoTime =>
                   TaskOf(tasks', running_study_task_id').start_time = now
        ELSE /\ running_study_task_id' = NoId
             /\ UNCHANGED <<tasks, after_ticks>>
      ]_vars

\* C21 as stated: while the active task's time has not elapsed, no Start click
\* and no entry into study mode makes another task the active one.
C21_SingleSession ==
    [][(ActiveUnelapsed
        /\ ((\E id \in TaskIds : StartTask(id)) \/ switch_mode("study_mode")))
          => running_study_task_id' = running_study_task_id
      ]_vars

\* a countdown tick that fires when its task is not the active one or the
\* mode is not study mode
StaleTick(tk) ==
    /\ Tick(tk)
    /\ (running_study_task_id # tk.id \/ current_mode # "study_mode")

\* a countdown tick that fires for a task that was completed or deleted
TickOfFinishedTask(tk) ==
    /\ Tick(tk)
    /\ (tk.id \notin Ids(tasks) \/ TaskOf(tasks, tk.id).completed)

\* C22 as stated: a tick that is stale, and in particular any tick of a task
\* that was completed or deleted, changes neither the status display nor any
\* session or task field and schedules no further tick.
C22_StaleTickIsNoOp ==
    [][\A tk \in after_ticks :
          (StaleTick(tk) \/ TickOfFinishedTask(tk)) =>
            /\ after_ticks' = after_ticks \ {tk}
            /\ UNCHANGED <<study_mode_status, tasks, file,
                           running_study_task_id, current_mode, lockVars,
                           dialogVars, after_reset>>
      ]_vars

\* C23 as stated: a cool-down callback that runs after the dialog that
\* scheduled it was destroyed changes nothing of any unlock dialog: not
\* wrong_attempts, not the state of the inputs, not the texts.
C23_StaleResetChangesNothing ==
    [][(reset_unlock_dialog /\ stale_resets > 0) => UNCHANGED dialogVars]_vars

\* C24: neither a countdown tick nor the passing of time completes a task or
\* changes the active task, the lock or any close_attempts; a tick of the
\* active task at or after its limit only sets the status display to
\* "time reached" and schedules no further tick.
C24_TimerNeverCompletes ==
    [][/\ ((\E tk \in after_ticks : Tick(tk)) \/ now' # now) =>
            UNCHANGED <<tasks, file, running_study_task_id, current_mode,
                        lockVars, dialogVars>>
       /\ \A tk \in after_ticks :
            (Tick(tk) /\ ~StaleTick(tk)
             /\ Elapsed(TaskOf(tasks, tk.id)) >= LimitTicks(TaskOf(tasks, tk.id)))
              => /\ study_mode_status' = <<"reached", tk.id>>
                 /\ after_ticks' = after_ticks \ {tk}
      ]_vars

\* C24 witness: the display says the time is reached while the active task is
\* still not completed
C24_Witness ==
    /\ running_study_task_id \in Ids(tasks)
    /\ study_mode_status = <<"reached", running_study_task_id>>
    /\ ~TaskOf(tasks, running_study_task_id).completed
    /\ Elapsed(TaskOf(tasks, running_study_task_id))
         >= LimitTicks(TaskOf(tasks, running_study_task_id))

\* the remaining time in seconds that a status text shows
Shown(status) ==
    IF status # <<>> /\ status[1] = "remaining"
    THEN status[3] * 60 + status[4]
    ELSE 0

\* C25 as stated: at a countdown tick of the active task the remaining time
\* shown is max(0, L*60 - elapsed whole seconds); it is zero exactly when
\* L minutes have elapsed, and it never grows from one tick to the next.
C25_CountdownShowsRemaining ==
    [][\A tk \in after_ticks :
          (Tick(tk) /\ ~StaleTick(tk)) =>
            LET t == TaskOf(tasks, tk.id)
                left == t.time_limit * 60 - (Elapsed(t) \div TicksPerSec)
            IN /\ Shown(study_mode_status') = IF left > 0 THEN left ELSE 0
               /\ (Shown(study_mode_status') = 0) <=>
                     (Elapsed(t) >= LimitTicks(t))
               /\ (study_mode_status # <<>> /\ study_mode_status[2] = tk.id
                   /\ study_mode_status[1] = "remaining") =>
                     Shown(study_mode_status') <= Shown(study_mode_status)
      ]_vars

\* The time-limit widgets hold a non-positive manual entry, or nothing at all
NoPositiveLimit(input) ==
    \/ input.manual # <<>> /\ input.manual[1] <= 0
    \/ input.manual = <<>> /\ input.combo = <<>>

\* C26: saving a new task in study mode with a non-positive or missing time
\* limit shows an error and adds nothing to the task list or the tasks file,
\* and every study-mode task in the list (so every task that can become the
\* running one) has a time limit greater than 0.
C26_StudyTasksHavePositiveLimit ==
    [][/\ \A input \in Inputs :
             (AddTask(input) /\ current_mode = "study_mode"
                 /\ NoPositiveLimit(input)) =>
               /\ tasks' = tasks
               /\ file' = file
               /\ messagebox' \in {<<"invalid_time_limit">>,
                                   <<"missing_time_limit">>}
       /\ \A i \in 1..Len(tasks') :
             tasks'[i].study_mode = "study_mode" => tasks'[i].time_limit > 0
      ]_vars

C26_Witness ==
    /\ messagebox = <<"invalid_time_limit">>
    /\ running_study_task_id \in Ids(tasks)
    /\ TaskOf(tasks, running_study_task_id).time_limit > 0

\* a close-window request on the running, started study task, in study mode
\* with the window not locked, when k requests have been counted so far
CloseRequestAfter(k) ==
    /\ handle_close
    /\ CloseVetoed
    /\ running_study_task_id \in Ids(tasks)
    /\ TaskOf(tasks, running_study_task_id).start_time # NoTime
    /\ TaskOf(tasks, running_study_task_id).close_attempts = k
    /\ ~is_fullscreen

Persistent(t) ==
    [id |-> t.id, close_attempts |-> t.close_attempts,
     completed |-> t.completed, time_limit |-> t.time_limit,
     study_mode |-> t.study_mode, started |-> (t.start_time # NoTime)]

\* C28: when a close-window request returns, the saved copy of every task has
\* the close_attempts of the task in memory; a restart (the task list read
\* back from the tasks file) gives the same tasks in the same order with the
\* same id, close_attempts, completed flag, time limit, study mode and
\* started/not-started status; and after every step the tasks file would
\* reload to exactly those values, so this holds whenever the process stops.
C28_AttemptsPersisted ==
    [][/\ handle_close =>
             /\ Len(file') = Len(tasks')
             /\ \A i \in 1..Len(tasks') :
                   /\ file'[i].id = tasks'[i].id
                   /\ file'[i].close_attempts = tasks'[i].close_attempts
       /\ Restart =>
             /\ Len(tasks') = Len(tasks)
             /\ \A i \in 1..Len(tasks) :
                   Persistent(tasks'[i]) = Persistent(tasks[i])
       /\ Len(LoadTasks(file')) = Len(tasks')
       /\ \A i \in 1..Len(tasks') :
             Persistent(LoadTasks(file')[i]) = Persistent(tasks'[i])
      ]_vars

\* C28 witness: restarted after close requests were counted against a started
\* task; the reloaded task carries the count and is still started
C28_Witness ==
    /\ ~destroyed
    /\ current_mode = "normal"
    /\ running_study_task_id = NoId
    /\ ~is_fullscreen /\ unlock_dialog = "None"
    /\ geometry = InitialGeometry
    /\ messagebox = <<>> /\ study_mode_status = <<>>
    /\ after_ticks = {} /\ after_reset = <<>>
    /\ tasks = LoadTasks(file)
    /\ \E i \in 1..Len(tasks) :
          /\ tasks[i].close_attempts = 3
          /\ tasks[i].start_time # NoTime
          /\ ~tasks[i].completed
          /\ tasks[i].study_mode = "study_mode"

\* C29: over every step a task that is completed and still in the list stays
\* completed (also across a restart), and a complete action on an already
\* completed task leaves completed true and completed_at as it was.
C29_CompletedMonotone ==
    [][\A id \in Ids(tasks) :
          /\ (TaskOf(tasks, id).completed /\ id \in Ids(tasks')) =>
                TaskOf(tasks', id).completed
          /\ (TaskOf(tasks, id).completed /\ CompleteTask(id)) =>
                /\ id \in Ids(tasks')
                /\ TaskOf(tasks', id).completed
                /\ TaskOf(tasks', id).completed_at
                     = TaskOf(tasks, id).completed_at
      ]_vars

\* C29 witness: the only task ever added was completed in an earlier second
\* and a complete action on it has just been accepted
C29_Witness ==
    /\ nextId = 1 /\ Len(tasks) = 1
    /\ messagebox = <<"completed">>
    /\ tasks[1].completed
    /\ tasks[1].completed_at # NoTime
    /\ tasks[1].completed_at < Strftime(now)

\* the unlock dialog is open with its entry and button disabled
LockedOut == unlock_dialog = "open" /\ inputs_state = "disabled"

\* the unlock dialog is open, enabled, with no failure counted
Recovered ==
    /\ unlock_dialog = "open"
    /\ inputs_state = "normal"
    /\ wrong_attempts = 0

\* C30: when the unlock dialog is locked out after the third wrong password,
\* then, the cool-down callback being run when it is due, either the dialog
\* is closed or eventually wrong_attempts is 0 and the inputs are enabled;
\* in that state a submission of the correct password is accepted: the lock
\* is cleared, the dialog destroyed and the running task kept.
C30_LockoutNotPermanent ==
    /\ LockedOut ~> (unlock_dialog # "open" \/ Recovered)
    /\ [][(Recovered /\ check_password(unlock_password)) =>
            /\ ~is_fullscreen'
            /\ unlock_dialog' = "None"
            /\ messagebox' = <<"unlocked">>
            /\ running_study_task_id' = running_study_task_id
         ]_vars

\* C30 witness: the clock stands at the due time of a lock-out entered at
\* tick 1, the callback has run, the dialog is open and enabled again
C30_Witness ==
    /\ now = 1 + CooldownTicks
    /\ Recovered
    /\ is_fullscreen
    /\ password_var = "" /\ error_label = <<>>
    /\ after_reset = <<>> /\ stale_resets = 0
    /\ messagebox = <<>>

\* C31: a task just added is not completed, and complete_task on a task that
\* is in normal mode or has time limit 0 returns True and leaves the task
\* completed, whether it was never started, started just now or long ago.
C31_UntimedAlwaysCompletes ==
    [][/\ \A i \in 1..Len(tasks') :
             tasks'[i].id \notin Ids(tasks) => ~tasks'[i].completed
       /\ \A id \in Ids(tasks) :
             (Helper_complete_task(id) /\ ~IsTimed(TaskOf(tasks, id))) =>
                /\ complete_task_returns(tasks, id, now)
                /\ id \in Ids(tasks')
                /\ TaskOf(tasks', id).completed
      ]_vars

\* C31 witness: a study-mode task with time limit 0, never started, is
\* completed, next to a task that was just added
C31_Witness ==
    /\ Len(tasks) = 2
    /\ tasks[1].study_mode = "study_mode" /\ tasks[1].time_limit = 0
    /\ tasks[1].start_time = NoTime /\ tasks[1].completed
    /\ ~tasks[2].completed

C33_DestroyedOnlyWhenIdleOrNormal ==
    [][/\ (~destroyed /\ destroyed') =>
             /\ handle_close
             /\ running_study_task_id = NoId \/ current_mode = "normal"
             /\ messagebox' = <<"confirm_close">>
       /\ handle_close_declined => ~destroyed'
       /\ (handle_close /\ running_study_task_id # NoId
              /\ current_mode = "study_mode") =>
             /\ ~destroyed'
             /\ messagebox' # <<"confirm_close">>
             /\ running_study_task_id \in Ids(tasks) =>
                   TaskOf(tasks', running_study_task_id).close_attempts
                     = TaskOf(tasks, running_study_task_id).close_attempts + 1
      ]_vars

\* C33 witness: a close request has just been refused and counted although
\* the running task's time limit has elapsed
C33_Witness ==
    /\ ~destroyed
    /\ current_mode = "study_mode"
    /\ ReadyToComplete
    /\ messagebox = <<"close_forbidden">>
    /\ TaskOf(tasks, running_study_task_id).close_attempts = 1

\* C34: in every reachable state, is_fullscreen implies that a running task
\* is set and the mode is study_mode.
C34_LockedImpliesSession ==
    is_fullscreen =>
        running_study_task_id # NoId /\ current_mode = "study_mode"


\* C34 witness: the window is locked for a running task in study mode and the
\* unlock dialog has been dismissed, so complete, delete and the mode switch
\* can be reached while the lock is held
C34_Witness ==
    /\ is_fullscreen
    /\ unlock_dialog = "None"
    /\ ~destroyed
    /\ current_mode = "study_mode"
    /\ ReadyToComplete

\* C35 as stated: in every reachable state, a running task being set implies
\* that the mode is study_mode.
C35_SessionImpliesStudyMode ==
    running_study_task_id # NoId => current_mode = "study_mode"

\* C36 as stated: in every reachable state, is_fullscreen implies that the
\* running task has at least 3 close attempts.
C36_LockedImpliesThreeAttempts ==
    is_fullscreen =>
        /\ running_study_task_id \in Ids(tasks)
        /\ TaskOf(tasks, running_study_task_id).close_attempts >= 3

\* C37 as stated: in every reachable state, is_fullscreen implies that the
\* unlock dialog is open.
C37_LockedImpliesDialogOpen ==
    is_fullscreen => unlock_dialog = "open"

\* C38 as stated: in every reachable state wrong_attempts is within 0..3 and
\* at most one reset_unlock_dialog call is pending.
C38_FailuresBoundedOneCallback ==
    /\ wrong_attempts \in 0..MaxTries
    /\ Len(after_reset) <= 1

\* C39: a close-window request made while the unlock dialog is open leaves
\* wrong_attempts, the state of the entry and the button, the entered text
\* and the error text as they are, and the dialog stays the one open dialog;
\* wrong_attempts goes back to 0 only when a dialog is created (in the running
\* program or with its start) or when reset_unlock_dialog runs.
C39_CloseKeepsOpenDialog ==
    /\ [][(handle_close /\ unlock_dialog = "open") =>
          /\ unlock_dialog' = "open"
          /\ wrong_attempts' = wrong_attempts
          /\ inputs_state' = inputs_state
          /\ password_var' = password_var
          /\ error_label' = error_label
          /\ after_reset' = after_reset
          /\ stale_resets' = stale_resets
      ]_vars
    /\ [][(wrong_attempts # 0 /\ wrong_attempts' = 0) =>
            \/ unlock_dialog # "open" /\ unlock_dialog' = "open"
            \/ reset_unlock_dialog
            \/ Restart
         ]_vars

\* C39 witness: with two wrong passwords counted in the open dialog a further
\* close-window request was made and counted, and the two failures remain
C39_Witness ==
    /\ unlock_dialog = "open"
    /\ wrong_attempts = 2
    /\ error_label = <<"tries", 1>>
    /\ messagebox = <<"close_warning", 4>>
    /\ is_fullscreen

\* C40 as stated: in every reachable state the running task, when set, is a
\* task of the list that is not completed.
C40_RunningTaskPending ==
    running_study_task_id # NoId =>
        /\ running_study_task_id \in Ids(tasks)
        /\ ~TaskOf(tasks, running_study_task_id).completed

====
